---------------------------- MODULE Spec2Model ----------------------------
(***************************************************************************)
(* FlowCaptchaService (src/services/flow_captcha_service.py): the client   *)
(* of the upstream Flow captcha service.  get_token and solve are          *)
(* coroutines; solve suspends only inside lines 66-73 (the session and its *)
(* POST) and touches no state there, so a call is two atomic steps: from   *)
(* its entry to the POST being issued (or a raise before it), and from the *)
(* POST's completion to the call's end.                                    *)
(*                                                                         *)
(* Python values are tagged records ([t |-> "None"], [t |-> "str", ..],    *)
(* ..).  A Python str is a sequence of tokens: inputs are written one      *)
(* character per token, the literal parts of the source's messages one     *)
(* token each.                                                             *)
(***************************************************************************)
EXTENDS Integers, Sequences, FiniteSets, TLC

VARIABLES
    config,     \* the config object the service reads (core.config.config)
    pc,         \* per call: "idle", "awaiting" (suspended in session.post) or "done"
    op,         \* per call: which coroutine was invoked, "solve" or "get_token"
    args,       \* per call: the arguments of the invocation
    read,       \* per call: the configuration values the call read at lines 39-42
    locals,     \* per call: solve's locals once the POST is issued
    posts,      \* per call: the requests the call issued on its own AsyncSession
    response,   \* per call: what session.post produced for the call
    outcome     \* per call: the value returned or the exception raised

vars == <<config, pc, op, args, read, locals, posts, response, outcome>>

-----------------------------------------------------------------------------
(* Python values *)

None == [t |-> "None"]
Str(s) == [t |-> "str", s |-> s]
Num(n) == [t |-> "int", n |-> n]
Dict(d) == [t |-> "dict", d |-> d]
List(l) == [t |-> "list", l |-> l]

EmptyDict == Dict([k \in {} |-> None])

\* bool(v)
Truthy(v) ==
    CASE v.t = "None" -> FALSE
      [] v.t = "str" -> v.s # <<>>
      [] v.t = "int" -> v.n # 0
      [] v.t = "dict" -> DOMAIN v.d # {}
      [] v.t = "list" -> v.l # <<>>

\* a or b
Or(a, b) == IF Truthy(a) THEN a ELSE b

\* str(v)
str(v) ==
    CASE v.t = "str" -> v.s
      [] v.t = "None" -> <<"None">>
      [] v.t = "int" -> <<ToString(v.n)>>
      [] v.t = "dict" -> <<ToString(v.d)>>
      [] v.t = "list" -> <<ToString(v.l)>>

\* d.get(k, default) of a dict d
Get(d, k, default) == IF k \in DOMAIN d.d THEN d.d[k] ELSE default

\* How a coroutine ends, and the state of one that has not ended.
Return(v) == [kind |-> "return", value |-> v]
Raise(e, m) == [kind |-> "raise", exc |-> e, msg |-> m]
Pending == [kind |-> "pending"]

-----------------------------------------------------------------------------
(* str methods *)

Whitespace == {" ", "\t", "\n"}

RECURSIVE lstrip(_, _)
lstrip(s, chars) ==
    IF s # <<>> /\ Head(s) \in chars THEN lstrip(Tail(s), chars) ELSE s

RECURSIVE rstrip(_, _)
rstrip(s, chars) ==
    IF s # <<>> /\ s[Len(s)] \in chars
    THEN rstrip(SubSeq(s, 1, Len(s) - 1), chars)
    ELSE s

strip(s) == lstrip(rstrip(s, Whitespace), Whitespace)

\* s[:n]
Slice(s, n) == SubSeq(s, 1, IF Len(s) < n THEN Len(s) ELSE n)

\* urllib.parse.urljoin(base, url) for a base that ends in "/" and a url with
\* no query, fragment or dot segments: a url with a scheme replaces the base,
\* an empty url leaves it, any other url is resolved against it.
HasScheme(url) ==
    \E i \in 2..Len(url) :
        /\ url[i] = ":"
        /\ \A j \in 1..(i - 1) : url[j] \notin {"/", ":"} \cup Whitespace

urljoin(base, url) ==
    IF url = <<>> THEN base
    ELSE IF HasScheme(url) THEN url
    ELSE base \o url

-----------------------------------------------------------------------------
(* FlowCaptchaService: class attributes *)

SERVICE_NAME == "Flow-RecaptchaV3TaskProxylessM1"
TASK_TYPE == "RecaptchaV3TaskProxylessM1"
PROVIDER == "browser"
PRICING ==
    [currency |-> "CNY", price_per_1000_tasks |-> "15.0",
     price_per_task |-> "0.015", points_per_task |-> "15.0"]
FLOW_PROJECT_URL_PREFIX == <<"https://labs.google/fx/tools/flow/project/">>

\* The prefix of every RuntimeError message of solve.
ErrorPrefix == <<"flow captcha service error: ">>


-----------------------------------------------------------------------------
(* solve, lines 39-73: from the entry to the POST *)

\* (value or "").strip() of a configured or passed Optional[str]
Trimmed(value) == strip(Or(value, Str(<<>>)).s)

\* CheckConfigured with the api_key test ahead of the solve_path test.
CheckConfigured_KeyFirst(base_url, solve_path, api_key) ==
    IF base_url = <<>>
    THEN Raise("ValueError", <<"FlowCaptchaServiceBaseURL is not configured">>)
    ELSE IF api_key = <<>>
    THEN Raise("ValueError", <<"FlowCaptchaServiceApiKey is not configured">>)
    ELSE IF solve_path = <<>>
    THEN Raise("ValueError", <<"FlowCaptchaServiceSolvePath is not configured">>)
    ELSE Pending

\* CheckConfigured without the api_key test.
CheckConfigured_NoKeyTest(base_url, solve_path, api_key) ==
    IF base_url = <<>>
    THEN Raise("ValueError", <<"FlowCaptchaServiceBaseURL is not configured">>)
    ELSE IF solve_path = <<>>
    THEN Raise("ValueError", <<"FlowCaptchaServiceSolvePath is not configured">>)
    ELSE Pending

\* Lines 44-49: the exception the configuration check raises, or Pending
\* when it lets the call go on.
CheckConfigured(base_url, solve_path, api_key) ==
    IF base_url = <<>>
    THEN Raise("ValueError", <<"FlowCaptchaServiceBaseURL is not configured">>)
    ELSE IF solve_path = <<>>
    THEN Raise("ValueError", <<"FlowCaptchaServiceSolvePath is not configured">>)
    ELSE IF api_key = <<>>
    THEN Raise("ValueError", <<"FlowCaptchaServiceApiKey is not configured">>)
    ELSE Pending

\* Lines 51-53
ResolveWebsiteUrl(project_id, website_url) ==
    LET resolved_website_url == Trimmed(website_url)
    IN  IF resolved_website_url = <<>> /\ Truthy(project_id)
        THEN FLOW_PROJECT_URL_PREFIX \o str(project_id)
        ELSE resolved_website_url

\* BuildPayload with website_url always in the payload.
BuildPayload_AlwaysUrl(project_id, resolved_website_url, page_action) ==
    LET keys == {"page_action", "website_url"}
                \cup (IF Truthy(project_id) THEN {"project_id"} ELSE {})
    IN  [k \in keys |->
            CASE k = "page_action" -> page_action
              [] k = "project_id" -> project_id
              [] k = "website_url" -> Str(resolved_website_url)]

\* Lines 55-61
BuildPayload(project_id, resolved_website_url, page_action) ==
    LET keys == {"page_action"}
                \cup (IF Truthy(project_id) THEN {"project_id"} ELSE {})
                \cup (IF resolved_website_url # <<>> THEN {"website_url"} ELSE {})
    IN  [k \in keys |->
            CASE k = "page_action" -> page_action
              [] k = "project_id" -> project_id
              [] k = "website_url" -> Str(resolved_website_url)]

\* Line 63
RequestUrl(base_url, solve_path) ==
    urljoin(rstrip(base_url, {"/"}) \o <<"/">>, lstrip(solve_path, {"/"}))

\* Lines 67-73: the arguments of session.post
PostRequest(request_url, payload, api_key, timeout_seconds) ==
    [url |-> request_url,
     json |-> payload,
     headers |-> [Authorization |-> <<"Bearer ">> \o api_key],
     timeout |-> timeout_seconds,
     impersonate |-> "chrome110"]

\* Lines 39-42: what solve reads from the config object.
ReadConfig(cfg) ==
    [base_url |-> Trimmed(cfg.flow_captcha_service_base_url),
     solve_path |-> Trimmed(cfg.flow_captcha_service_solve_path),
     api_key |-> Trimmed(cfg.flow_captcha_service_api_key),
     timeout_seconds |-> cfg.flow_captcha_service_timeout_seconds]

NoLocals == [t |-> "unset"]
NoResponse == [t |-> "none"]

\* Lines 39-73 as one step: the exception raised before the POST, or the
\* locals of the call and the request it issues.
SolveEntry(cfg, project_id, website_url, page_action) ==
    LET r == ReadConfig(cfg)
        checked == CheckConfigured(r.base_url, r.solve_path, r.api_key)
        resolved_website_url == ResolveWebsiteUrl(project_id, website_url)
        payload == BuildPayload(project_id, resolved_website_url, page_action)
        request_url == RequestUrl(r.base_url, r.solve_path)
    IN  IF checked # Pending
        THEN [outcome |-> checked, locals |-> NoLocals, requests |-> <<>>]
        ELSE [outcome |-> Pending,
              locals |-> [t |-> "set",
                          base_url |-> r.base_url,
                          solve_path |-> r.solve_path,
                          api_key |-> r.api_key,
                          timeout_seconds |-> r.timeout_seconds,
                          resolved_website_url |-> resolved_website_url,
                          payload |-> payload,
                          request_url |-> request_url],
              requests |-> <<PostRequest(request_url, payload, r.api_key,
                                         r.timeout_seconds)>>]

-----------------------------------------------------------------------------
(* solve, lines 74-115: from the completion of the POST to the end *)

\* type(v).__name__
TypeName(v) ==
    CASE v.t = "None" -> "NoneType"
      [] v.t = "int" -> "int"
      [] OTHER -> v.t

\* What v.get(..) raises when v is no dict.
NoGet(v) ==
    Raise("AttributeError",
          <<"'", TypeName(v), "' object has no attribute 'get'">>)

\* _extract_error_message with the body's message field ahead of a string error.
_extract_error_message_MessageFirst(response_json) ==
    IF response_json.t # "dict" THEN NoGet(response_json)
    ELSE LET err == Get(response_json, "error", None)
         IN  IF err.t = "dict"
             THEN Return(str(Or(Or(Get(err, "message", None),
                                   Get(err, "error", None)),
                                response_json)))
             ELSE IF Get(response_json, "message", None).t = "str"
             THEN Return(response_json.d["message"].s)
             ELSE IF err.t = "str" THEN Return(err.s)
             ELSE Return(str(response_json))

\* Lines 117-126.  The value returned is a str; the call raises when
\* response_json has no get method.
_extract_error_message(response_json) ==
    IF response_json.t # "dict" THEN NoGet(response_json)
    ELSE LET err == Get(response_json, "error", None)
         IN  IF err.t = "dict"
             THEN Return(str(Or(Or(Get(err, "message", None),
                                   Get(err, "error", None)),
                                response_json)))
             ELSE IF err.t = "str" THEN Return(err.s)
             ELSE IF Get(response_json, "message", None).t = "str"
             THEN Return(response_json.d["message"].s)
             ELSE Return(str(response_json))

DigitValue ==
    [c \in {"0", "1", "2", "3", "4", "5", "6", "7", "8", "9"} |->
        CASE c = "0" -> 0 [] c = "1" -> 1 [] c = "2" -> 2 [] c = "3" -> 3
          [] c = "4" -> 4 [] c = "5" -> 5 [] c = "6" -> 6 [] c = "7" -> 7
          [] c = "8" -> 8 [] c = "9" -> 9]

RECURSIVE DecimalValue(_)
DecimalValue(s) ==
    IF s = <<>> THEN 0
    ELSE 10 * DecimalValue(SubSeq(s, 1, Len(s) - 1)) + DigitValue[s[Len(s)]]

\* int(value) of a str: surrounding whitespace and one sign are accepted,
\* anything but decimal digits after that is a ValueError.
IntOfStr(s) ==
    LET body == strip(s)
        signed == body # <<>> /\ Head(body) \in {"+", "-"}
        digits == IF signed THEN Tail(body) ELSE body
    IN  IF digits = <<>> \/ \E i \in 1..Len(digits) : digits[i] \notin DOMAIN DigitValue
        THEN Raise("ValueError", <<"invalid literal for int()">>)
        ELSE Return(IF signed /\ Head(body) = "-"
                    THEN 0 - DecimalValue(digits)
                    ELSE DecimalValue(digits))

\* Lines 128-135
_to_int(value, default) ==
    IF value.t = "None" THEN default
    ELSE IF value.t = "int" THEN value.n
    ELSE IF value.t = "str"
    THEN (IF IntOfStr(value.s).kind = "return" THEN IntOfStr(value.s).value ELSE default)
    ELSE default

\* Lines 96-101: the value of the or-chain, whose last operand is evaluated
\* only when the three before it are falsy.
ExtractToken(response_json) ==
    LET first == Or(Or(Get(response_json, "token", None),
                       Get(response_json, "gRecaptchaResponse", None)),
                    Get(response_json, "g_recaptcha_response", None))
        solution == Get(response_json, "solution", EmptyDict)
    IN  IF Truthy(first) THEN Return(first)
        ELSE IF solution.t # "dict" THEN NoGet(solution)
        ELSE Return(Get(solution, "gRecaptchaResponse", None))

\* Lines 105-115
SolveResult(page_action, token, response_json) ==
    [name |-> SERVICE_NAME,
     object |-> "captcha.solution",
     provider |-> PROVIDER,
     page_action |-> page_action,
     token |-> token,
     duration_ms |-> _to_int(Get(response_json, "duration_ms", None), 0),
     browser_id |-> _to_int(Get(response_json, "browser_id", None), 0),
     task_type |-> TASK_TYPE,
     pricing |-> PRICING]

\* Line 86
IsErrorStatus(status_code) == status_code >= 400

\* Line 92 with any error field taken for a logical error.
HasLogicalError_AnyError(response_json) == "error" \in DOMAIN response_json.d

\* Line 92 with no error field taken for a logical error.
HasLogicalError_Never(response_json) == FALSE

\* Line 92
HasLogicalError(response_json) == Get(response_json, "error", None).t = "dict"

\* Lines 86-115: a parsed body
HandleJson(page_action, status_code, response_json) ==
    IF IsErrorStatus(status_code)
    THEN LET upstream_message == _extract_error_message(response_json)
         IN  IF upstream_message.kind = "raise" THEN upstream_message
             ELSE Raise("RuntimeError",
                        ErrorPrefix \o <<"upstream status ", ToString(status_code), ": ">>
                        \o upstream_message.value)
    ELSE IF response_json.t # "dict" THEN NoGet(response_json)
    ELSE IF HasLogicalError(response_json)
    THEN LET upstream_message == _extract_error_message(response_json)
         IN  IF upstream_message.kind = "raise" THEN upstream_message
             ELSE Raise("RuntimeError", ErrorPrefix \o upstream_message.value)
    ELSE LET token == ExtractToken(response_json)
         IN  IF token.kind = "raise" THEN token
             ELSE IF ~Truthy(token.value)
             THEN Raise("RuntimeError",
                        ErrorPrefix \o <<"missing token in upstream response">>)
             ELSE Return(SolveResult(page_action, token.value, response_json))

\* Lines 74-115 as one step.  result is what awaiting session.post gave: an
\* exception, or a response with its status_code, its text and what its
\* json() gives (a value, or a decoding error).
SolveResume(page_action, result) ==
    IF result.t = "exception"
    THEN Raise("RuntimeError", ErrorPrefix \o <<"request failed: ">> \o result.msg)
    ELSE IF result.json.t = "JSONDecodeError"
    THEN Raise("RuntimeError",
               ErrorPrefix
               \o <<"invalid json response (status=", ToString(result.status_code), "): ">>
               \o Slice(Or(result.text, Str(<<>>)).s, 200))
    ELSE HandleJson(page_action, result.status_code, result.json)

\* Lines 29-30: get_token after its solve call ended
GetTokenResume(solved) ==
    IF solved.kind = "return" THEN Return(solved.value.token) ELSE solved

-----------------------------------------------------------------------------
(* The inputs: configurations, arguments and what the upstream may answer *)

Absent == [t |-> "absent"]

\* The dict with the keys of f whose value is not Absent.
MkDict(f) == Dict([k \in {x \in DOMAIN f : f[x] # Absent} |-> f[k]])

BaseUrls == {None, Str(<<>>), Str(<<" ", "\t">>), Str(<<" ", "h", "/", " ">>)}
SolvePaths == {None, Str(<<>>), Str(<<" ">>), Str(<<"\t", "/", "s", " ">>)}
ApiKeys == {None, Str(<<>>), Str(<<"\n">>), Str(<<"k", " ">>)}
Timeouts == {None, Num(0), Num(30)}

Configs ==
    [flow_captcha_service_base_url : BaseUrls,
     flow_captcha_service_solve_path : SolvePaths,
     flow_captcha_service_api_key : ApiKeys,
     flow_captcha_service_timeout_seconds : Timeouts]

ProjectIds == {None, Str(<<>>), Str(<<"a", "b", "c", "1", "2", "3">>)}
WebsiteUrls == {None, Str(<<" ">>), Str(<<" ", "w", " ">>)}
PageActions == {Str(<<"IMAGE_GENERATION">>), Str(<<"VIDEO_GENERATION">>)}

ErrorFields ==
    {Absent, None, Str(<<"rate_limited">>), EmptyDict,
     MkDict([message |-> Str(<<"overload">>)]),
     MkDict([error |-> Str(<<"denied">>)]),
     MkDict([message |-> Str(<<>>), error |-> Str(<<"denied">>)])}
MessageFields == {Absent, Str(<<"busy">>), Num(7)}
TokenFields == {Absent, Str(<<>>), Str(<<"T1">>)}
SolutionFields ==
    {Absent, None, Str(<<"s">>), MkDict([gRecaptchaResponse |-> Str(<<"T4">>)])}
MetricFields ==
    {[duration_ms |-> Absent, browser_id |-> Absent],
     [duration_ms |-> Str(<<" ", "1", "2">>), browser_id |-> Str(<<"b", "7">>)]}

\* The JSON objects an upstream body may parse to.
JsonObjects ==
    {MkDict([error |-> e, message |-> m, token |-> t,
             gRecaptchaResponse |-> g, g_recaptcha_response |-> u,
             solution |-> s,
             duration_ms |-> x.duration_ms, browser_id |-> x.browser_id]) :
        e \in ErrorFields, m \in MessageFields, t \in TokenFields,
        g \in {Absent, Str(<<"T2">>)}, u \in {Absent, Str(<<"T3">>)},
        s \in SolutionFields, x \in MetricFields}

\* The JSON values that are no object.
JsonOthers == {None, List(<<>>), Str(<<"ok">>)}

StatusCodes == {200, 400, 500}

JSONDecodeError == [t |-> "JSONDecodeError"]

Response(status_code, text, json) ==
    [t |-> "response", status_code |-> status_code, text |-> text, json |-> json]

Exception(msg) == [t |-> "exception", msg |-> msg]

\* What awaiting session.post may give.
PostResults ==
    {Exception(<<"timed out">>)}
    \cup {Response(c, Str(<<"<html>">>), JSONDecodeError) : c \in StatusCodes}
    \cup {Response(c, Str(<<ToString(j)>>), j) : c \in StatusCodes, j \in JsonObjects \cup JsonOthers}

-----------------------------------------------------------------------------
(* The calls *)

Calls == DOMAIN pc

NoArgs == [t |-> "none"]

\* solve is entered by call i (lines 32-73).
Enter(i, name, project_id, website_url, page_action) ==
    LET e == SolveEntry(config, project_id, website_url, page_action)
    IN  /\ op' = [op EXCEPT ![i] = name]
        /\ args' = [args EXCEPT ![i] = [project_id |-> project_id,
                                       website_url |-> website_url,
                                       page_action |-> page_action]]
        /\ read' = [read EXCEPT ![i] = config]
        /\ locals' = [locals EXCEPT ![i] = e.locals]
        /\ posts' = [posts EXCEPT ![i] = posts[i] \o e.requests]
        /\ outcome' = [outcome EXCEPT ![i] = e.outcome]
        /\ pc' = [pc EXCEPT ![i] = IF e.outcome = Pending THEN "awaiting" ELSE "done"]
        /\ UNCHANGED <<config, response>>

\* Lines 32-73: a call of solve runs to its POST or to a raise.
solve(i, project_id, website_url, page_action) ==
    /\ pc[i] = "idle"
    /\ Enter(i, "solve", project_id, website_url, page_action)

\* get_token without its test of project_id.
get_token_NoShortcut(i, project_id, page_action) ==
    /\ pc[i] = "idle"
    /\ Enter(i, "get_token", project_id, None, page_action)

\* Lines 26-29: a call of get_token returns None at once, or enters solve.
get_token(i, project_id, page_action) ==
    /\ pc[i] = "idle"
    /\ IF ~Truthy(project_id)
       THEN /\ op' = [op EXCEPT ![i] = "get_token"]
            /\ args' = [args EXCEPT ![i] = [project_id |-> project_id,
                                           website_url |-> Absent,
                                           page_action |-> page_action]]
            /\ outcome' = [outcome EXCEPT ![i] = Return(None)]
            /\ pc' = [pc EXCEPT ![i] = "done"]
            /\ UNCHANGED <<config, read, locals, posts, response>>
       ELSE Enter(i, "get_token", project_id, None, page_action)

\* Lines 74-115 (and 30 for get_token): session.post completes for call i and
\* the call runs to its end.
PostCompletes(i, result) ==
    /\ pc[i] = "awaiting"
    /\ LET solved == SolveResume(args[i].page_action, result)
       IN  outcome' = [outcome EXCEPT ![i] =
                          IF op[i] = "get_token" THEN GetTokenResume(solved) ELSE solved]
    /\ response' = [response EXCEPT ![i] = result]
    /\ pc' = [pc EXCEPT ![i] = "done"]
    /\ UNCHANGED <<config, op, args, read, locals, posts>>

InitCalls(calls) ==
    /\ pc = [i \in calls |-> "idle"]
    /\ op = [i \in calls |-> "none"]
    /\ args = [i \in calls |-> NoArgs]
    /\ read = [i \in calls |-> NoArgs]
    /\ locals = [i \in calls |-> NoLocals]
    /\ posts = [i \in calls |-> <<>>]
    /\ response = [i \in calls |-> NoResponse]
    /\ outcome = [i \in calls |-> Pending]

\* One call, under any configuration, with any arguments and any answer.
Init ==
    /\ config \in Configs
    /\ InitCalls({1})

Idle(i) == pc[i] = "idle"
Awaiting(i) == pc[i] = "awaiting"

Next ==
    \/ \E i \in Calls : Idle(i) /\
          \E p \in ProjectIds, w \in WebsiteUrls, a \in PageActions : solve(i, p, w, a)
    \/ \E i \in Calls : Idle(i) /\
          \E p \in ProjectIds, a \in PageActions : get_token(i, p, a)
    \/ \E i \in Calls : Awaiting(i) /\
          \E r \in PostResults : PostCompletes(i, r)

Spec == Init /\ [][Next]_vars

-----------------------------------------------------------------------------
(* Concurrent calls: several coroutines of one service object, interleaved *)
(* at their awaits, while the configuration changes under them.            *)

NumCalls == 2

ConcConfigs ==
    {[flow_captcha_service_base_url |-> b,
      flow_captcha_service_solve_path |-> Str(<<"/", "s">>),
      flow_captcha_service_api_key |-> k,
      flow_captcha_service_timeout_seconds |-> Num(30)] :
        b \in {Str(<<"h">>)}, k \in {None, Str(<<"k">>), Str(<<"q">>)}}

ConcWebsiteUrls == {Str(<<"w">>)}
ConcProjectIds == {None, Str(<<"p">>)}
ConcPageActions == {Str(<<"IMAGE_GENERATION">>)}

ConcPostResults ==
    {Exception(<<"timed out">>),
     Response(200, Str(<<"<html>">>), JSONDecodeError),
     Response(200, None, MkDict([token |-> Str(<<"T1">>)])),
     Response(500, None, MkDict([error |-> MkDict([message |-> Str(<<"overload">>)])]))}

Cancelled == [t |-> "cancelled"]

\* Line 9: the config object belongs to the process, which may change it at
\* any time between the steps of the calls.
set_config(c) ==
    /\ c # config
    /\ config' = c
    /\ UNCHANGED <<pc, op, args, read, locals, posts, response, outcome>>

\* cancel over a session that the calls share: every call that awaits is
\* cancelled with call i.
cancel_SharedSession(i) ==
    /\ pc[i] = "awaiting"
    /\ response' = [response EXCEPT ![i] = Cancelled]
    /\ outcome' = [j \in Calls |->
                      IF pc[j] = "awaiting" THEN Raise("CancelledError", <<>>)
                      ELSE outcome[j]]
    /\ pc' = [j \in Calls |-> IF pc[j] = "awaiting" THEN "done" ELSE pc[j]]
    /\ UNCHANGED <<config, op, args, read, locals, posts>>

\* Lines 66-75: the task of call i is cancelled while it awaits session.post.
\* CancelledError is no Exception, so line 74 does not catch it.
cancel(i) ==
    /\ pc[i] = "awaiting"
    /\ response' = [response EXCEPT ![i] = Cancelled]
    /\ outcome' = [outcome EXCEPT ![i] = Raise("CancelledError", <<>>)]
    /\ pc' = [pc EXCEPT ![i] = "done"]
    /\ UNCHANGED <<config, op, args, read, locals, posts>>

InitConc ==
    /\ config \in ConcConfigs
    /\ InitCalls(1..NumCalls)

NextConc ==
    \/ \E i \in Calls : Idle(i) /\
          \E p \in ConcProjectIds, w \in ConcWebsiteUrls, a \in ConcPageActions :
              solve(i, p, w, a)
    \/ \E i \in Calls : Idle(i) /\
          \E p \in ConcProjectIds, a \in ConcPageActions : get_token(i, p, a)
    \/ \E i \in Calls : Awaiting(i) /\
          \E r \in ConcPostResults : PostCompletes(i, r)
    \/ \E i \in Calls : cancel(i)
    \/ \E c \in ConcConfigs : set_config(c)

SpecConc == InitConc /\ [][NextConc]_vars

-----------------------------------------------------------------------------
(* The properties *)

Done(i) == pc[i] = "done"

\* Call i entered solve (directly, or through get_token) and read the
\* configuration.
EnteredSolve(i) == read[i] # NoArgs

\* The configured string after trimming: empty for None and for whitespace.
ConfiguredString(i, field) == Trimmed(read[i][field])

BaseUrlEmpty(i) == ConfiguredString(i, "flow_captcha_service_base_url") = <<>>
SolvePathEmpty(i) == ConfiguredString(i, "flow_captcha_service_solve_path") = <<>>
ApiKeyEmpty(i) == ConfiguredString(i, "flow_captcha_service_api_key") = <<>>

ConfigurationError(i, message) == outcome[i] = Raise("ValueError", <<message>>)

\* C1: a call of solve under a configuration whose base_url, solve_path or
\* api_key is empty after trimming raises the configuration error that names
\* the first empty one, in the order base_url, solve_path, api_key, and issues
\* no request.
C1_ConfigErrorNamesFirstEmptyField ==
    \A i \in Calls :
        EnteredSolve(i) /\ (BaseUrlEmpty(i) \/ SolvePathEmpty(i) \/ ApiKeyEmpty(i)) =>
            /\ Done(i)
            /\ posts[i] = <<>>
            /\ BaseUrlEmpty(i) =>
                  ConfigurationError(i, "FlowCaptchaServiceBaseURL is not configured")
            /\ ~BaseUrlEmpty(i) /\ SolvePathEmpty(i) =>
                  ConfigurationError(i, "FlowCaptchaServiceSolvePath is not configured")
            /\ ~BaseUrlEmpty(i) /\ ~SolvePathEmpty(i) =>
                  ConfigurationError(i, "FlowCaptchaServiceApiKey is not configured")

\* A call of solve found solve_path and api_key both empty (whitespace only
\* and None) under a base_url that is not, and raised for solve_path.
C1_Witness ==
    \E i \in Calls :
        /\ op[i] = "solve"
        /\ read[i].flow_captcha_service_base_url = Str(<<" ", "h", "/", " ">>)
        /\ read[i].flow_captcha_service_solve_path = Str(<<" ">>)
        /\ read[i].flow_captcha_service_api_key = None
        /\ ConfigurationError(i, "FlowCaptchaServiceSolvePath is not configured")

TimeoutSet(i) ==
    /\ read[i].flow_captcha_service_timeout_seconds.t = "int"
    /\ read[i].flow_captcha_service_timeout_seconds.n # 0

\* C2, as claimed: a call that issued its POST read all four configuration
\* values non-empty and non-zero, timeout_seconds included.
C2_PostNeedsAllFour ==
    \A i \in Calls :
        posts[i] # <<>> =>
            ~BaseUrlEmpty(i) /\ ~SolvePathEmpty(i) /\ ~ApiKeyEmpty(i) /\ TimeoutSet(i)

\* C2, amended: a call that issued its POST read base_url, solve_path and
\* api_key non-empty after trimming, and a call that read one of them empty
\* raised a configuration error without a request; timeout_seconds is not
\* checked: the request carries whatever value was configured.
C2_PostNeedsThreeStrings ==
    \A i \in Calls :
        /\ posts[i] # <<>> =>
              /\ ~BaseUrlEmpty(i) /\ ~SolvePathEmpty(i) /\ ~ApiKeyEmpty(i)
              /\ posts[i][1].timeout = read[i].flow_captcha_service_timeout_seconds
              /\ posts[i][1].headers.Authorization =
                     <<"Bearer ">> \o ConfiguredString(i, "flow_captcha_service_api_key")
        /\ EnteredSolve(i) /\ (BaseUrlEmpty(i) \/ SolvePathEmpty(i) \/ ApiKeyEmpty(i)) =>
              /\ posts[i] = <<>>
              /\ outcome[i].kind = "raise" /\ outcome[i].exc = "ValueError"

\* A call issued its POST under a timeout_seconds of 0.
C2_Witness ==
    \E i \in Calls :
        /\ Len(posts[i]) = 1
        /\ read[i].flow_captcha_service_timeout_seconds = Num(0)
        /\ posts[i][1].timeout = Num(0)

\* A complete result of solve: the nine fields, with a token.
CompleteResult(v) ==
    /\ DOMAIN v = {"name", "object", "provider", "page_action", "token",
                   "duration_ms", "browser_id", "task_type", "pricing"}
    /\ Truthy(v.token)
    /\ v.duration_ms \in Int /\ v.browser_id \in Int

\* C3: a call of solve that ended returned a complete result or raised a
\* configuration error (ValueError) or a transport or upstream error
\* (RuntimeError), whatever the upstream answered.
C3_OnlyFourOutcomes ==
    \A i \in Calls :
        Done(i) /\ op[i] = "solve" =>
            \/ outcome[i].kind = "return" /\ CompleteResult(outcome[i].value)
            \/ outcome[i].kind = "raise" /\ outcome[i].exc \in {"ValueError", "RuntimeError"}


Answered(i) == response[i].t = "response"
Body(i) == response[i].json
Status(i) == response[i].status_code

\* Call i is a call of solve that ended on an answer whose body is a JSON object.
SolvedObject(i) ==
    Done(i) /\ op[i] = "solve" /\ Answered(i) /\ Body(i).t = "dict"

Has(i, k) == k \in DOMAIN Body(i).d
Field(i, k) == Body(i).d[k]

\* The upstream and transport errors are RuntimeErrors whose message starts
\* with the service's prefix.
UpstreamError(i, message) == outcome[i] = Raise("RuntimeError", ErrorPrefix \o message)

NoTokenField(i) ==
    ~Has(i, "token") /\ ~Has(i, "gRecaptchaResponse")
    /\ ~Has(i, "g_recaptcha_response") /\ ~Has(i, "solution")

StringErrorNoToken(i) ==
    /\ SolvedObject(i) /\ Status(i) = 200
    /\ Has(i, "error") /\ Field(i, "error").t = "str"
    /\ NoTokenField(i)

\* C4, as claimed: on HTTP 200 with a body whose error field is a string and
\* which has no token field, solve raises the upstream error whose message is
\* that string.
C4_StringErrorIsTheMessage ==
    \A i \in Calls : StringErrorNoToken(i) => UpstreamError(i, Field(i, "error").s)

\* C4, amended: on HTTP 200 with a body whose error field is a string and which
\* has no token field, solve raises the upstream error "missing token in
\* upstream response": a string error is no logical error on a status below
\* 400, and its text is not reported.
C4_StringErrorIsMissingToken ==
    \A i \in Calls :
        StringErrorNoToken(i) => UpstreamError(i, <<"missing token in upstream response">>)

\* solve ended on HTTP 200 with the body {"error": "rate_limited"}.
C4_Witness ==
    \E i \in Calls :
        /\ SolvedObject(i) /\ Status(i) = 200
        /\ Body(i) = MkDict([error |-> Str(<<"rate_limited">>)])
        /\ outcome[i].kind = "raise"

\* C5, as claimed: on a 2xx answer whose body has an error field (here: one
\* that is not null), solve fails and returns no result, whatever token the
\* body carries.
C5_ErrorFieldIsFatal ==
    \A i \in Calls :
        SolvedObject(i) /\ Status(i) = 200 /\ Has(i, "error") /\ Field(i, "error") # None =>
            outcome[i].kind = "raise"

Without(d, k) == Dict([x \in DOMAIN d.d \ {k} |-> d.d[x]])

\* The message of an error mapping: its message, else its error, else the body.
MappingMessage(i) ==
    LET err == Field(i, "error")
    IN  IF "message" \in DOMAIN err.d /\ Truthy(err.d["message"])
        THEN str(err.d["message"])
        ELSE IF "error" \in DOMAIN err.d /\ Truthy(err.d["error"])
        THEN str(err.d["error"])
        ELSE str(Body(i))

\* C5, amended: on a 2xx answer whose body has an error field that is a
\* mapping, solve raises the upstream error with the extracted message and
\* returns no result, whatever token the body carries; an error field that is
\* no mapping (a string, null) is ignored: the call ends as it does on the
\* same body without the error field.
C5_MappingErrorIsFatal ==
    \A i \in Calls :
        SolvedObject(i) /\ Status(i) = 200 /\ Has(i, "error") =>
            IF Field(i, "error").t = "dict"
            THEN UpstreamError(i, MappingMessage(i))
            ELSE outcome[i] = HandleJson(args[i].page_action, 200, Without(Body(i), "error"))

\* solve ended on HTTP 200 with a body that has an error mapping and a token.
C5_Witness ==
    \E i \in Calls :
        /\ SolvedObject(i) /\ Status(i) = 200
        /\ Has(i, "error") /\ Field(i, "error") = MkDict([message |-> Str(<<"overload">>)])
        /\ Has(i, "token") /\ Field(i, "token") = Str(<<"T1">>)
        /\ outcome[i].kind = "raise"

\* The four places of the token, in order; a place that is not there is None.
TokenPlaces(i) ==
    <<IF Has(i, "token") THEN Field(i, "token") ELSE None,
      IF Has(i, "gRecaptchaResponse") THEN Field(i, "gRecaptchaResponse") ELSE None,
      IF Has(i, "g_recaptcha_response") THEN Field(i, "g_recaptcha_response") ELSE None,
      IF Has(i, "solution") /\ Field(i, "solution").t = "dict"
         /\ "gRecaptchaResponse" \in DOMAIN Field(i, "solution").d
      THEN Field(i, "solution").d["gRecaptchaResponse"] ELSE None>>

\* C6: on a status below 400 with a JSON object that has no error field, solve
\* returns the first truthy one of token, gRecaptchaResponse,
\* g_recaptcha_response and solution.gRecaptchaResponse, and raises the upstream
\* error "missing token in upstream response" when none is.
C6_FirstTruthyTokenOrMissing ==
    \A i \in Calls :
        SolvedObject(i) /\ Status(i) < 400 /\ ~Has(i, "error") =>
            LET places == TokenPlaces(i)
                found == {n \in 1..4 : Truthy(places[n])}
            IN  IF found = {}
                THEN UpstreamError(i, <<"missing token in upstream response">>)
                ELSE /\ outcome[i].kind = "return"
                     /\ outcome[i].value.token =
                            places[CHOOSE n \in found : \A m \in found : n <= m]

\* The message policy of an error status, in its order.
PolicyMessage(i) ==
    IF Has(i, "error") /\ Field(i, "error").t = "dict" THEN MappingMessage(i)
    ELSE IF Has(i, "error") /\ Field(i, "error").t = "str" THEN Field(i, "error").s
    ELSE IF Has(i, "message") /\ Field(i, "message").t = "str" THEN Field(i, "message").s
    ELSE str(Body(i))

\* C7: on a status of 400 or more with a JSON object, solve raises the upstream
\* error "upstream status <code>: <message>", the message chosen by the policy
\* (error mapping: its message, else its error, else the body; error string;
\* message string; the body), and returns no result even if the body has a token.
C7_ErrorStatusMessage ==
    \A i \in Calls :
        SolvedObject(i) /\ Status(i) >= 400 =>
            UpstreamError(i, <<"upstream status ", ToString(Status(i)), ": ">>
                             \o PolicyMessage(i))

\* solve ended on HTTP 500 with a body that has a string error, a string
\* message and a token, and reported the error string.
C7_Witness ==
    \E i \in Calls :
        /\ SolvedObject(i) /\ Status(i) = 500
        /\ Has(i, "error") /\ Field(i, "error") = Str(<<"rate_limited">>)
        /\ Has(i, "message") /\ Field(i, "message") = Str(<<"busy">>)
        /\ Has(i, "token") /\ Field(i, "token") = Str(<<"T1">>)
        /\ UpstreamError(i, <<"upstream status ", "500", ": ", "rate_limited">>)


NonEmpty(v) == v.t = "str" /\ v.s # <<>>

\* C8: a call of get_token with an absent or empty projectId returns None
\* without reading the configuration and without a request; a call with a
\* non-empty projectId is one call of solve with websiteUrl unset (it issues
\* what that call issues, one request at most) and ends with the token of the
\* result of that call, or with its exception.
C8_GetTokenShortcut ==
    \A i \in Calls :
        op[i] = "get_token" =>
            IF ~NonEmpty(args[i].project_id)
            THEN /\ Done(i) /\ outcome[i] = Return(None)
                 /\ posts[i] = <<>> /\ ~EnteredSolve(i)
            ELSE /\ EnteredSolve(i)
                 /\ posts[i] = SolveEntry(read[i], args[i].project_id, None,
                                          args[i].page_action).requests
                 /\ Len(posts[i]) <= 1
                 /\ posts[i] # <<>> =>
                       posts[i][1].json["website_url"] =
                           Str(FLOW_PROJECT_URL_PREFIX \o args[i].project_id.s)
                 /\ Done(i) /\ posts[i] # <<>> =>
                       LET solved == SolveResume(args[i].page_action, response[i])
                       IN  IF solved.kind = "return"
                           THEN outcome[i] = Return(solved.value.token)
                           ELSE outcome[i] = solved

\* get_token was called with an empty projectId under a configuration with no
\* base_url, and returned None.
C8_Witness ==
    \E i \in Calls :
        /\ op[i] = "get_token" /\ Done(i)
        /\ args[i].project_id = Str(<<>>)
        /\ config.flow_captcha_service_base_url = None
        /\ outcome[i] = Return(None)

\* get_token was called with a projectId and returned the token of the answer.
C8_WitnessToken ==
    \E i \in Calls :
        /\ op[i] = "get_token" /\ Done(i)
        /\ args[i].project_id = Str(<<"a", "b", "c", "1", "2", "3">>)
        /\ outcome[i] = Return(Str(<<"T2">>))

\* The resolved URL: the trimmed websiteUrl when that is not empty, else the
\* prefix and the projectId when that is present, else empty.
ResolvedUrl(i) ==
    LET trimmed == IF args[i].website_url.t = "str"
                   THEN strip(args[i].website_url.s) ELSE <<>>
    IN  IF trimmed # <<>> THEN trimmed
        ELSE IF NonEmpty(args[i].project_id)
        THEN <<"https://labs.google/fx/tools/flow/project/">> \o args[i].project_id.s
        ELSE <<>>

\* C9: the payload of the request of a call has page_action, has project_id
\* exactly when projectId is non-empty, and has website_url exactly when the
\* resolved URL is non-empty; it has no other key and no null or empty value
\* for the two optional ones.
C9_PayloadFields ==
    \A i \in Calls :
        posts[i] # <<>> =>
            LET payload == posts[i][1].json
            IN  /\ DOMAIN payload \subseteq {"page_action", "project_id", "website_url"}
                /\ "page_action" \in DOMAIN payload
                /\ payload["page_action"] = args[i].page_action
                /\ "project_id" \in DOMAIN payload <=> NonEmpty(args[i].project_id)
                /\ "project_id" \in DOMAIN payload =>
                       payload["project_id"] = args[i].project_id
                /\ "website_url" \in DOMAIN payload <=> ResolvedUrl(i) # <<>>
                /\ "website_url" \in DOMAIN payload =>
                       payload["website_url"] = Str(ResolvedUrl(i))
                /\ \A k \in DOMAIN payload : NonEmpty(payload[k])

\* solve was called with a blank websiteUrl and the projectId abc123, and sent
\* the project's URL.
C9_Witness ==
    \E i \in Calls :
        /\ op[i] = "solve" /\ Len(posts[i]) = 1
        /\ args[i].website_url = Str(<<" ">>)
        /\ args[i].project_id = Str(<<"a", "b", "c", "1", "2", "3">>)
        /\ posts[i][1].json["website_url"] =
               Str(<<"https://labs.google/fx/tools/flow/project/",
                     "a", "b", "c", "1", "2", "3">>)

\* solve was called with no projectId and a blank websiteUrl, and sent
\* page_action alone.
C9_WitnessOmitted ==
    \E i \in Calls :
        /\ op[i] = "solve" /\ Len(posts[i]) = 1
        /\ args[i].website_url = Str(<<" ">>) /\ args[i].project_id = None
        /\ DOMAIN posts[i][1].json = {"page_action"}

\* What call i of the given coroutine issues and how it ends, as a function of
\* its own arguments, the configuration it read and what its own POST gave.
OwnRequests(i) ==
    IF op[i] = "get_token" /\ ~NonEmpty(args[i].project_id) THEN <<>>
    ELSE SolveEntry(read[i], args[i].project_id,
                    IF op[i] = "get_token" THEN None ELSE args[i].website_url,
                    args[i].page_action).requests

OwnOutcome(i) ==
    IF op[i] = "get_token" /\ ~NonEmpty(args[i].project_id) THEN Return(None)
    ELSE LET e == SolveEntry(read[i], args[i].project_id,
                             IF op[i] = "get_token" THEN None ELSE args[i].website_url,
                             args[i].page_action)
         IN  IF e.outcome # Pending THEN e.outcome
             ELSE IF response[i] = NoResponse THEN Pending
             ELSE IF response[i] = Cancelled THEN Raise("CancelledError", <<>>)
             ELSE IF op[i] = "get_token"
             THEN GetTokenResume(SolveResume(args[i].page_action, response[i]))
             ELSE SolveResume(args[i].page_action, response[i])

CallState(i) ==
    <<pc[i], op[i], args[i], read[i], locals[i], posts[i], response[i], outcome[i]>>

\* Every call issues one request at most, and issued what, and ended as, its
\* own arguments, configuration and answer determine.
CallsAreIndependent ==
    \A i \in Calls :
        pc[i] # "idle" =>
            /\ Len(posts[i]) <= 1
            /\ posts[i] = OwnRequests(i)
            /\ outcome[i] = OwnOutcome(i)
            /\ Done(i) <=> outcome[i] # Pending

\* A step changes the state of one call at most, and leaves a call that ended
\* as it ended.
StepTouchesOneCall ==
    /\ \A i \in Calls : Done(i) => CallState(i)' = CallState(i)
    /\ \A i, j \in Calls :
          CallState(i)' # CallState(i) /\ CallState(j)' # CallState(j) => i = j

\* C10: under any interleaving of concurrent calls, with the configuration
\* changing and calls failing, timing out or being cancelled, every call
\* issues one request at most, its request and its outcome are determined by
\* its own arguments, the configuration it read at its start and its own
\* answer, and no step of one call changes another call.
C10_ConcurrentCallsIndependent ==
    []CallsAreIndependent /\ [][StepTouchesOneCall]_vars

\* Two calls that read different api_keys: one was cancelled in flight, the
\* other returned a result after that.
C10_Witness ==
    \E i, j \in Calls :
        /\ i # j
        /\ outcome[i] = Raise("CancelledError", <<>>)
        /\ outcome[j].kind = "return"
        /\ Len(posts[i]) = 1 /\ Len(posts[j]) = 1
        /\ posts[i][1].headers # posts[j][1].headers

=============================================================================
